---- MODULE Spec2Model ----
(***************************************************************************)
(* Model of src/main.py: the FastAPI backend with GET /test                *)
(* (test_database) and POST /contact (submit_contact).                     *)
(*                                                                         *)
(* One request is in flight at a time; requests share no state             *)
(* (main.py holds no module-level mutable state), so one worker's pass     *)
(* through a handler is the whole behaviour of that request.               *)
(*                                                                         *)
(* Text that the code only compares or copies is a TLA+ string.  Text the  *)
(* code parses (the email address, SMTP_PORT) is a sequence of one-        *)
(* character strings so that the parse is computed.                        *)
(***************************************************************************)
EXTENDS Integers, Sequences, FiniteSets, TLC

VARIABLES
    pc,              \* position of the worker inside the handler
    trace,           \* the positions this request has gone through, in order
    req,             \* raw JSON body of POST /contact
    form,            \* the ContactForm handed to submit_contact
    env,             \* os.environ as read by the request (lines 87-92)
    smtp_host, smtp_port, smtp_user, smtp_pass, smtp_from, to_email,
    sent_via_email, email_error, stored_id,
    connOpen,        \* the socket held by the smtplib.SMTP object
    smtpLog,         \* what the mail relay saw: stages, in order, with outcome
    dbLog,           \* what the document store saw: insert attempts
    dbmod,           \* state of the database module seen by GET /test
    result           \* the HTTP response

vars == <<pc, trace, req, form, env, smtp_host, smtp_port, smtp_user, smtp_pass,
          smtp_from, to_email, sent_via_email, email_error, stored_id,
          connOpen, smtpLog, dbLog, dbmod, result>>

\* ------------------------------------------------------------------ bounds
MaxEmailLen == 5
MaxPortLen == 2
MaxCollections == 11

\* --------------------------------------------------------- program constants
DefaultPort == 587
ShownCollections == 10
ErrChars == 50
HttpOk == 200
HttpUnprocessable == 422
HttpServerError == 500

\* ------------------------------------------------------------ Python values
None == "<None>"
Unset == <<"<unset>">>
DefaultTo == "hiya@iscuela.com"
LostDetail == "Unable to process contact at this time."
CrashDetail == "Internal Server Error"

\* Python truthiness of an Optional[str]
Truthy(v) == v /= None /\ v /= ""

\* Python `a or b` on Optional[str]
Or(a, b) == IF Truthy(a) THEN a ELSE b

Min(a, b) == IF a < b THEN a ELSE b

SeqsUpTo(S, n) == UNION {[1..k -> S] : k \in 0..n}

\* -------------------------------------------------------------- the inputs
EmailChars == {"x", "@", "."}
Emails == SeqsUpTo(EmailChars, MaxEmailLen)
Names == {None, "", "Ada"}
Messages == {None, "", "Hello"}
Phones == {None, "555"}
Businesses == {None, "Acme"}

Requests == [name : Names, email : Emails, phone : Phones,
             business_name : Businesses, message : Messages]

NoReq == [name |-> None, email |-> <<>>, phone |-> None,
          business_name |-> None, message |-> None]

PortChars == {"2", "5", "a"}
PortTexts == SeqsUpTo(PortChars, MaxPortLen)

Envs == [SMTP_HOST : {None, "", "smtp.example.com"},
         SMTP_PORT : {Unset} \cup PortTexts,
         SMTP_USER : {None, "user"},
         SMTP_PASS : {None, "pw"},
         SMTP_FROM : {None, "", "studio@example.com"},
         CONTACT_TO_EMAIL : {None, "owner@example.com"}]

NoEnv == [SMTP_HOST |-> None, SMTP_PORT |-> Unset, SMTP_USER |-> None,
          SMTP_PASS |-> None, SMTP_FROM |-> None, CONTACT_TO_EMAIL |-> None]

\* str(e) of the exception a stage raised; it may be the empty string
ErrDescs == {"", "connection refused"}

Ids == {"abc123", "xyz"}

\* ------------------------------------------------- Validator (ContactForm)
\* EmailStr: a dot-atom local part, one "@", a dotted domain with no empty
\* label.
DotAtom(s) ==
    /\ s /= <<>>
    /\ s[1] /= "."
    /\ s[Len(s)] /= "."
    /\ \A k \in 1..(Len(s) - 1) : ~(s[k] = "." /\ s[k + 1] = ".")

ValidEmail(e) ==
    \E i \in 1..Len(e) :
        /\ e[i] = "@"
        /\ \A j \in 1..Len(e) : e[j] = "@" => j = i
        /\ DotAtom(SubSeq(e, 1, i - 1))
        /\ DotAtom(SubSeq(e, i + 1, Len(e)))
        /\ \E j \in (i + 1)..Len(e) : e[j] = "."

\* name: str and message: str are required fields; any str is accepted.
\* phone and business_name are Optional[str] = None.
BadFieldsNoEmailCheck(r) ==
    (IF r.name = None THEN {"name"} ELSE {})
        \cup (IF r.message = None THEN {"message"} ELSE {})

BadFieldsNameOptional(r) ==
    (IF ValidEmail(r.email) THEN {} ELSE {"email"})

BadFields(r) ==
    (IF r.name = None THEN {"name"} ELSE {})
        \cup (IF ValidEmail(r.email) THEN {} ELSE {"email"})
        \cup (IF r.message = None THEN {"message"} ELSE {})

\* ------------------------------------------------------------ int(SMTP_PORT)
Digit(c) == IF c = "2" THEN 2 ELSE IF c = "5" THEN 5 ELSE -1

IsInt(s) == s /= <<>> /\ \A k \in 1..Len(s) : Digit(s[k]) >= 0

RECURSIVE IntOf(_)
IntOf(s) ==
    IF s = <<>> THEN 0
    ELSE 10 * IntOf(SubSeq(s, 1, Len(s) - 1)) + Digit(s[Len(s)])

\* os.getenv("SMTP_PORT") or 587: the text when set and non-empty
PortGiven(p) == p /= Unset /\ p /= <<>>

\* line 88 raises ValueError exactly when the text is given and not a number
PortRaises(p) == PortGiven(p) /\ ~IsInt(p)

PortOf(p) == IF PortGiven(p) THEN IntOf(p) ELSE DefaultPort

\* ------------------------------------------------------------------- Init
Init ==
    /\ pc = "idle"
    /\ trace = <<>>
    /\ req = NoReq
    /\ form = NoReq
    /\ env = NoEnv
    /\ smtp_host = None
    /\ smtp_port = 0
    /\ smtp_user = None
    /\ smtp_pass = None
    /\ smtp_from = None
    /\ to_email = None
    /\ sent_via_email = FALSE
    /\ email_error = None
    /\ stored_id = None
    /\ connOpen = FALSE
    /\ smtpLog = <<>>
    /\ dbLog = <<>>
    /\ dbmod = [module |-> "unseen"]
    /\ result = [status |-> 0]

Goto(p) == pc' = p /\ trace' = Append(trace, p)

locals == <<smtp_host, smtp_port, smtp_user, smtp_pass, smtp_from, to_email,
            sent_via_email, email_error, stored_id>>

\* ---------------------------------------------------------- POST /contact
\* A request body arrives at the route.
Receive ==
    /\ pc = "idle"
    /\ \E r \in Requests : req' = r
    /\ Goto("received")
    /\ UNCHANGED <<form, env, locals, connOpen, smtpLog, dbLog, dbmod, result>>

\* FastAPI builds the ContactForm parameter; on failure it answers 422 and
\* the body of submit_contact does not run.
Validate ==
    /\ pc = "received"
    /\ IF BadFields(req) = {}
       THEN /\ form' = req
            /\ Goto("validated")
            /\ UNCHANGED result
       ELSE /\ result' = [status |-> HttpUnprocessable, fields |-> BadFields(req)]
            /\ Goto("rejected")
            /\ UNCHANGED form
    /\ UNCHANGED <<req, env, locals, connOpen, smtpLog, dbLog, dbmod>>

\* Lines 87-95.  int() on line 88 is outside every try block.
ReadConfig ==
    /\ pc = "validated"
    /\ \E e \in Envs :
        /\ env' = e
        /\ IF PortRaises(e.SMTP_PORT)
           THEN /\ smtp_host' = e.SMTP_HOST
                /\ result' = [status |-> HttpServerError, detail |-> CrashDetail]
                /\ Goto("crashed")
                /\ UNCHANGED <<smtp_port, smtp_user, smtp_pass, smtp_from,
                               to_email, sent_via_email, email_error>>
           ELSE /\ smtp_host' = e.SMTP_HOST
                /\ smtp_port' = PortOf(e.SMTP_PORT)
                /\ smtp_user' = e.SMTP_USER
                /\ smtp_pass' = e.SMTP_PASS
                /\ smtp_from' = Or(e.SMTP_FROM, e.SMTP_USER)
                /\ to_email' = Or(e.CONTACT_TO_EMAIL, DefaultTo)
                /\ sent_via_email' = FALSE
                /\ email_error' = None
                /\ Goto("notify")
                /\ UNCHANGED result
    /\ UNCHANGED <<req, form, stored_id, connOpen, smtpLog, dbLog, dbmod>>

\* Line 97: if smtp_host and (smtp_user or smtp_from)
AttemptDeliveryWithoutHost(host, user, from) == Truthy(user) \/ Truthy(from)

AttemptDelivery(host, user, from) ==
    Truthy(host) /\ (Truthy(user) \/ Truthy(from))

\* Lines 103-114: the message handed to sendmail
Dash(v) == IF Truthy(v) THEN v ELSE "-"

Message ==
    [sender |-> smtp_from, rcpt |-> to_email,
     name |-> form.name, email |-> form.email, phone |-> Dash(form.phone),
     business |-> Dash(form.business_name), message |-> form.message]

Stage(s, ok) == [stage |-> s, ok |-> ok]

\* Lines 122-123: except Exception as e: email_error = str(e)
ExceptReraises(d) ==
    /\ result' = [status |-> HttpServerError, detail |-> CrashDetail]
    /\ Goto("crashed")
    /\ UNCHANGED <<sent_via_email, email_error>>

Except(d) ==
    /\ email_error' = d
    /\ Goto("record")
    /\ UNCHANGED <<sent_via_email, result>>

\* Line 116: leaving the with block runs SMTP.__exit__, which closes the socket
WithExitLeaks == UNCHANGED connOpen

WithExit == connOpen' = FALSE

\* Line 97 false: no delivery attempt
NotifySkip ==
    /\ pc = "notify"
    /\ ~AttemptDelivery(smtp_host, smtp_user, smtp_from)
    /\ Goto("record")
    /\ UNCHANGED <<req, form, env, locals, connOpen, smtpLog, dbLog, dbmod, result>>

\* Line 116: smtplib.SMTP(host, port, timeout=10) connects in its constructor;
\* when it raises, no SMTP object (and no socket) is left.
Connect ==
    /\ pc = "notify"
    /\ AttemptDelivery(smtp_host, smtp_user, smtp_from)
    /\ \/ /\ smtpLog' = Append(smtpLog, Stage("connect", TRUE))
          /\ connOpen' = TRUE
          /\ Goto("starttls")
          /\ UNCHANGED <<sent_via_email, email_error, result>>
       \/ /\ smtpLog' = Append(smtpLog, Stage("connect", FALSE))
          /\ UNCHANGED connOpen
          /\ \E d \in ErrDescs : Except(d)
    /\ UNCHANGED <<req, form, env, smtp_host, smtp_port, smtp_user, smtp_pass,
                   smtp_from, to_email, stored_id, dbLog, dbmod>>

\* Line 117
StartTLS ==
    /\ pc = "starttls"
    /\ \/ /\ smtpLog' = Append(smtpLog, Stage("starttls", TRUE))
          /\ Goto("login")
          /\ UNCHANGED <<connOpen, sent_via_email, email_error, result>>
       \/ /\ smtpLog' = Append(smtpLog, Stage("starttls", FALSE))
          /\ WithExit
          /\ \E d \in ErrDescs : Except(d)
    /\ UNCHANGED <<req, form, env, smtp_host, smtp_port, smtp_user, smtp_pass,
                   smtp_from, to_email, stored_id, dbLog, dbmod>>

\* Lines 118-119
Login ==
    /\ pc = "login"
    /\ Truthy(smtp_user) /\ Truthy(smtp_pass)
    /\ \/ /\ smtpLog' = Append(smtpLog, Stage("login", TRUE))
          /\ Goto("sendmail")
          /\ UNCHANGED <<connOpen, sent_via_email, email_error, result>>
       \/ /\ smtpLog' = Append(smtpLog, Stage("login", FALSE))
          /\ WithExit
          /\ \E d \in ErrDescs : Except(d)
    /\ UNCHANGED <<req, form, env, smtp_host, smtp_port, smtp_user, smtp_pass,
                   smtp_from, to_email, stored_id, dbLog, dbmod>>

\* Line 118 false: no credentials, no login
LoginSkip ==
    /\ pc = "login"
    /\ ~(Truthy(smtp_user) /\ Truthy(smtp_pass))
    /\ Goto("sendmail")
    /\ UNCHANGED <<req, form, env, locals, connOpen, smtpLog, dbLog, dbmod, result>>

\* Line 120
Sendmail ==
    /\ pc = "sendmail"
    /\ \/ /\ smtpLog' = Append(smtpLog, [stage |-> "sendmail", ok |-> TRUE,
                                         msg |-> Message])
          /\ Goto("quit")
          /\ UNCHANGED <<connOpen, sent_via_email, email_error, result>>
       \/ /\ smtpLog' = Append(smtpLog, Stage("sendmail", FALSE))
          /\ WithExit
          /\ \E d \in ErrDescs : Except(d)
    /\ UNCHANGED <<req, form, env, smtp_host, smtp_port, smtp_user, smtp_pass,
                   smtp_from, to_email, stored_id, dbLog, dbmod>>

\* Lines 116 and 121: the with block ends; __exit__ sends QUIT and closes the
\* socket in a finally clause; a QUIT answered with an error raises into the
\* except clause.  Then sent_via_email = True.
Quit ==
    /\ pc = "quit"
    /\ WithExit
    /\ \/ /\ smtpLog' = Append(smtpLog, Stage("quit", TRUE))
          /\ sent_via_email' = TRUE
          /\ Goto("record")
          /\ UNCHANGED <<email_error, result>>
       \/ /\ smtpLog' = Append(smtpLog, Stage("quit", FALSE))
          /\ \E d \in ErrDescs : Except(d)
    /\ UNCHANGED <<req, form, env, smtp_host, smtp_port, smtp_user, smtp_pass,
                   smtp_from, to_email, stored_id, dbLog, dbmod>>

\* Lines 129-137: the document handed to create_document
Doc ==
    [name |-> form.name, email |-> form.email, phone |-> form.phone,
     business_name |-> form.business_name, message |-> form.message,
     sent_via_email |-> sent_via_email, email_error |-> email_error]

\* Lines 126-140.  The import may fail (no insert is attempted); the insert
\* may raise (id None) or return the identifier the store assigned.
Record ==
    /\ pc = "record"
    /\ \/ /\ stored_id' = None
          /\ UNCHANGED dbLog
       \/ \E id \in {None} \cup Ids :
             /\ dbLog' = Append(dbLog, [doc |-> Doc, id |-> id])
             /\ stored_id' = id
    /\ Goto("decide")
    /\ UNCHANGED <<req, form, env, smtp_host, smtp_port, smtp_user, smtp_pass,
                   smtp_from, to_email, sent_via_email, email_error, connOpen,
                   smtpLog, dbmod, result>>

\* Line 142: if not sent_via_email and not stored_id
LostIfEither(sent, id) == ~sent \/ ~Truthy(id)

Lost(sent, id) == ~sent /\ ~Truthy(id)

\* Lines 142-145
Decide ==
    /\ pc = "decide"
    /\ IF Lost(sent_via_email, stored_id)
       THEN result' = [status |-> HttpServerError, detail |-> LostDetail]
       ELSE result' = [status |-> HttpOk, ok |-> TRUE,
                       sent_via_email |-> sent_via_email, stored_id |-> stored_id]
    /\ Goto("resolved")
    /\ UNCHANGED <<req, form, env, locals, connOpen, smtpLog, dbLog, dbmod>>

\* --------------------------------------------------------------- GET /test
\* str(e) of an exception met while importing or inspecting the database
ErrMsgs == {[i \in 1..n |-> "e"] : n \in {0, ErrChars - 1, ErrChars, ErrChars + 1}}

\* What db.list_collection_names() may return
CollectionLists == {[i \in 1..n |-> i] : n \in 0..MaxCollections}

DbMod(module, db, lists, err, names) ==
    [module |-> module, db |-> db, lists |-> lists, err |-> err, names |-> names]

\* The states of the database module: not importable (ImportError), raising
\* something else on import, importable with db None, importable with a db
\* whose listing raises or returns names.
DbMods ==
    {DbMod("missing", None, FALSE, <<>>, <<>>)}
        \cup {DbMod("broken", None, FALSE, e, <<>>) : e \in ErrMsgs}
        \cup {DbMod("ok", None, FALSE, <<>>, <<>>)}
        \cup {DbMod("ok", "db", FALSE, e, <<>>) : e \in ErrMsgs}
        \cup {DbMod("ok", "db", TRUE, <<>>, c) : c \in CollectionLists}

\* str(e)[:50]
Clip(m) == SubSeq(m, 1, Min(ErrChars, Len(m)))

\* Line 61: collections[:10]
FirstAll(c) == c

First(c) == SubSeq(c, 1, Min(ShownCollections, Len(c)))

\* Lines 39-71: the database field of the response
DatabaseStatus(m) ==
    IF m.module = "missing" THEN [kind |-> "module not found", text |-> <<>>]
    ELSE IF m.module = "broken" THEN [kind |-> "error", text |-> Clip(m.err)]
    ELSE IF m.db = None THEN [kind |-> "available but not initialized", text |-> <<>>]
    ELSE IF m.lists THEN [kind |-> "connected and working", text |-> <<>>]
    ELSE [kind |-> "connected but error", text |-> Clip(m.err)]

\* Lines 36-78
TestDatabase ==
    /\ pc = "idle"
    /\ \E m \in DbMods, url \in BOOLEAN, name \in BOOLEAN :
        /\ dbmod' = m
        /\ result' =
             [status |-> HttpOk,
              backend |-> "running",
              database |-> DatabaseStatus(m),
              database_url |-> IF url THEN "set" ELSE "not set",
              database_name |-> IF name THEN "set" ELSE "not set",
              connection_status |->
                  IF m.module = "ok" /\ m.db /= None
                  THEN "Connected" ELSE "Not Connected",
              collections |->
                  IF m.module = "ok" /\ m.db /= None /\ m.lists
                  THEN First(m.names) ELSE <<>>]
    /\ Goto("testdone")
    /\ UNCHANGED <<req, form, env, locals, connOpen, smtpLog, dbLog>>

\* ------------------------------------------------------------ the server
Terminal == {"rejected", "crashed", "resolved", "testdone"}

\* The response is sent; nothing of the request is kept.
Finish ==
    /\ pc \in Terminal
    /\ pc' = "idle"
    /\ trace' = <<>>
    /\ req' = NoReq
    /\ form' = NoReq
    /\ env' = NoEnv
    /\ smtp_host' = None
    /\ smtp_port' = 0
    /\ smtp_user' = None
    /\ smtp_pass' = None
    /\ smtp_from' = None
    /\ to_email' = None
    /\ sent_via_email' = FALSE
    /\ email_error' = None
    /\ stored_id' = None
    /\ connOpen' = FALSE
    /\ smtpLog' = <<>>
    /\ dbLog' = <<>>
    /\ dbmod' = [module |-> "unseen"]
    /\ result' = [status |-> 0]

Next ==
    \/ Receive
    \/ Validate
    \/ ReadConfig
    \/ NotifySkip
    \/ Connect
    \/ StartTLS
    \/ Login
    \/ LoginSkip
    \/ Sendmail
    \/ Quit
    \/ Record
    \/ Decide
    \/ TestDatabase
    \/ Finish

Spec == Init /\ [][Next]_vars

\* ============================================================= properties
Range(f) == {f[i] : i \in DOMAIN f}

\* The request passed validation and the body of submit_contact has run to
\* its end, by a return or by an exception.
ContactEnded == pc \in {"resolved", "crashed"}

\* The identifier the document store returned to this request (None when no
\* insert was attempted or the insert raised)
RecorderReturned == IF dbLog = <<>> THEN None ELSE dbLog[Len(dbLog)].id

NoExternalCall == smtpLog = <<>> /\ dbLog = <<>> /\ ~connOpen

StageFailed == \E i \in DOMAIN smtpLog : ~smtpLog[i].ok

LastStage(s, ok) ==
    /\ smtpLog /= <<>>
    /\ smtpLog[Len(smtpLog)].stage = s
    /\ smtpLog[Len(smtpLog)].ok = ok

StageOk(s) == \E i \in DOMAIN smtpLog : smtpLog[i].stage = s /\ smtpLog[i].ok

AfterNotifier == pc \in {"record", "decide", "resolved"}

\* The precondition of a delivery attempt, read off the environment
Precondition(e) ==
    Truthy(e.SMTP_HOST) /\ (Truthy(e.SMTP_USER) \/ Truthy(e.SMTP_FROM))

SuccessResult ==
    [status |-> HttpOk, ok |-> TRUE, sent_via_email |-> sent_via_email,
     stored_id |-> RecorderReturned]

LostResult == [status |-> HttpServerError, detail |-> LostDetail]

\* C1: when a valid submission's handling has ended and the Notifier
\* reported sent=true or the Recorder returned an identifier, the response
\* is {ok: true, sent_via_email, stored_id} with the Notifier's flag and the
\* identifier the store returned.
C1_EitherPathSucceeds ==
    (ContactEnded /\ (sent_via_email \/ RecorderReturned /= None))
        => result = SuccessResult

C1_Witness ==
    /\ pc = "resolved"
    /\ ~sent_via_email
    /\ StageFailed
    /\ RecorderReturned \in Ids
    /\ result = SuccessResult

\* C2: when a valid submission's handling has ended with no mail sent and
\* no identifier, the response is 500 "Unable to process contact at this
\* time.", and no other error response ends a valid submission.
C2_OnlyTotalLossIsAnError ==
    ContactEnded =>
        /\ (~sent_via_email /\ RecorderReturned = None) => result = LostResult
        /\ result.status /= HttpOk =>
               (result = LostResult /\ ~sent_via_email /\ RecorderReturned = None)

\* C3: a request whose email is not a valid address never gets past
\* validation: it is answered 422 naming the email field, and no SMTP
\* connection and no insert is made for it.
C3_InvalidEmailRejected ==
    (pc \notin {"idle", "testdone"} /\ ~ValidEmail(req.email)) =>
        /\ pc \in {"received", "rejected"}
        /\ NoExternalCall
        /\ pc = "rejected" =>
               (result.status = HttpUnprocessable /\ "email" \in result.fields)

C3_Witness ==
    /\ pc = "rejected"
    /\ req.email = <<"x", "x", ".", "x">>
    /\ req.name = "Ada"
    /\ req.message = "Hello"
    /\ result.fields = {"email"}

\* C4 as stated: every submission that reaches the Notifier or the Recorder
\* has a non-empty name and a non-empty message, and a request whose name or
\* message is the empty string is rejected without any external call.
C4_EmptyTextRejected ==
    /\ (AfterNotifier \/ ~NoExternalCall) =>
           (form.name \notin {None, ""} /\ form.message \notin {None, ""})
    /\ (pc \notin {"idle", "testdone"} /\ (req.name = "" \/ req.message = "")) =>
           (pc \in {"received", "rejected"} /\ NoExternalCall)

\* C4 amended: every submission that reaches the Notifier or the Recorder
\* has a name and a message that are present (any text, the empty string
\* included); a request whose name or message is missing is rejected with a
\* validation error naming the field and causes no external call.
C4_RequiredFieldsPresent ==
    /\ (pc \in {"validated", "notify", "starttls", "login", "sendmail", "quit"}
            \/ AfterNotifier \/ ContactEnded \/ ~NoExternalCall) =>
           (form.name /= None /\ form.message /= None)
    /\ (pc \notin {"idle", "testdone"} /\ (req.name = None \/ req.message = None)) =>
           /\ pc \in {"received", "rejected"}
           /\ NoExternalCall
           /\ pc = "rejected" =>
                  /\ result.status = HttpUnprocessable
                  /\ req.name = None => "name" \in result.fields
                  /\ req.message = None => "message" \in result.fields

C4_Witness ==
    /\ pc = "rejected"
    /\ req.name = None
    /\ req.message = "Hello"
    /\ ValidEmail(req.email)
    /\ result.fields = {"name"}

\* C5: a relay stage is run only if SMTP_HOST is set and SMTP_USER or
\* SMTP_FROM is set; otherwise no connection is opened, the outcome is
\* sent=false, error=None, and every record handed to the store carries
\* sent_via_email=false and email_error None.
C5_DeliveryPrecondition ==
    /\ (smtpLog /= <<>> \/ connOpen) => Precondition(env)
    /\ (AfterNotifier /\ ~Precondition(env)) =>
           /\ smtpLog = <<>>
           /\ ~connOpen
           /\ ~sent_via_email
           /\ email_error = None
           /\ \A i \in DOMAIN dbLog :
                  /\ dbLog[i].doc.sent_via_email = FALSE
                  /\ dbLog[i].doc.email_error = None

C5_Witness ==
    /\ pc = "decide"
    /\ ~Truthy(env.SMTP_HOST)
    /\ Truthy(env.SMTP_USER)
    /\ dbLog /= <<>>
    /\ smtpLog = <<>>

\* C6: every valid submission's handling runs the Recorder step, after the
\* Notifier step, and the record handed to the store carries the
\* submission's fields and the Notifier's outcome.
C6_RecorderAlwaysInvoked ==
    /\ ContactEnded =>
           \E i \in DOMAIN trace :
               /\ trace[i] = "record"
               /\ \E j \in 1..(i - 1) : trace[j] = "notify"
    /\ \A i \in DOMAIN dbLog :
           /\ AfterNotifier \/ pc = "crashed"
           /\ ~connOpen
           /\ dbLog[i].doc =
                  [name |-> form.name, email |-> form.email,
                   phone |-> form.phone, business_name |-> form.business_name,
                   message |-> form.message,
                   sent_via_email |-> sent_via_email,
                   email_error |-> email_error]

\* C7: a failed relay stage is never raised to the caller; it leaves
\* sent=false with the failure's description and the handling continues to
\* the Recorder.  sent=true only when every stage succeeded, and then the
\* error is absent.
C7_FailureFoldedIntoOutcome ==
    /\ sent_via_email =>
           /\ email_error = None
           /\ ~StageFailed
           /\ StageOk("connect") /\ StageOk("starttls")
           /\ StageOk("sendmail") /\ StageOk("quit")
           /\ (Truthy(env.SMTP_USER) /\ Truthy(env.SMTP_PASS)) => StageOk("login")
    /\ StageFailed =>
           /\ ~sent_via_email
           /\ email_error \in ErrDescs
           /\ AfterNotifier
    /\ (AfterNotifier /\ smtpLog /= <<>> /\ ~StageFailed) =>
           (sent_via_email /\ email_error = None)

C7_Witness ==
    /\ pc = "record"
    /\ LastStage("sendmail", FALSE)
    /\ email_error = "connection refused"

\* C8: one submission is one linear pass that ends Resolved: at most one
\* connection attempt, at most one insert attempt, no position entered
\* twice, and a validated submission ends in Resolved(Success|Failure)
\* after the Notifier and Recorder steps.
C8_SingleLinearPass ==
    /\ Cardinality({i \in DOMAIN smtpLog : smtpLog[i].stage = "connect"}) <= 1
    /\ Len(dbLog) <= 1
    /\ \A i, j \in DOMAIN trace : trace[i] = trace[j] => i = j
    /\ (pc \in Terminal /\ "validated" \in Range(trace)) =>
           /\ pc = "resolved"
           /\ {"notify", "record"} \subseteq Range(trace)
           /\ result \in {SuccessResult, LostResult}

\* C9: the relay connection is open only between a successful connect and
\* the end of the with block: it is closed when the Recorder step starts and
\* when the request ends.
C9_ConnectionReleased ==
    connOpen => pc \in {"starttls", "login", "sendmail", "quit"}

C9_Witness ==
    /\ pc = "record"
    /\ StageOk("connect")
    /\ LastStage("login", FALSE)
    /\ ~connOpen

\* C10: GET /test always answers with the diagnostic object: the database
\* field describes the case met (errors clipped to 50 characters) and
\* collections holds at most the first 10 names.
C10_TestNeverRaises ==
    pc = "testdone" =>
        /\ result.status = HttpOk
        /\ Len(result.collections) <= ShownCollections
        /\ \A i \in DOMAIN result.collections :
               result.collections[i] = dbmod.names[i]
        /\ Len(result.database.text) <= ErrChars
        /\ result.database.kind =
               (CASE dbmod.module = "missing" -> "module not found"
                  [] dbmod.module = "broken" -> "error"
                  [] dbmod.module = "ok" /\ dbmod.db = None ->
                         "available but not initialized"
                  [] dbmod.module = "ok" /\ dbmod.db /= None /\ ~dbmod.lists ->
                         "connected but error"
                  [] OTHER -> "connected and working")

C10_Witness ==
    /\ pc = "testdone"
    /\ dbmod.lists
    /\ Len(dbmod.names) > ShownCollections
    /\ Len(result.collections) = ShownCollections

====
